---- MODULE Spec2Model ----
(***************************************************************************)
(* Model of the Task/User REST API: the two document stores, the six       *)
(* mutating request handlers of routes/tasks.js and routes/users.js, and   *)
(* the synchronisation between Task.assignedUser and User.pendingTasks.    *)
(*                                                                         *)
(* Identifier strings are modelled as integers: EmptyStr is the empty      *)
(* string, BadId a string that is not a valid ObjectId, and a positive     *)
(* number an ObjectId the store has generated (never generated twice).     *)
(* An optional field of a request body is <<>> when absent and <<v>> when  *)
(* present with value v.                                                   *)
(***************************************************************************)
EXTENDS Integers, Sequences, FiniteSets, TLC

VARIABLES tasks, users, nextTaskId, nextUserId, last, inflight

vars == <<tasks, users, nextTaskId, nextUserId, last, inflight>>

\* ---------------------------------------------------------------- bounds
MaxTasks == 1
MaxUsers == 2
MaxListLen == 2

\* ------------------------------------------------------- string encoding
EmptyStr == 0
BadId == -1

Unassigned == "unassigned"

Absent == <<>>
Some(v) == <<v>>
\* JavaScript's  x ?? d
Coalesce(x, d) == IF x = Absent THEN d ELSE x[1]

TaskIds == 1..MaxTasks
UserIds == 1..MaxUsers

\* ids the store has generated so far (stored or deleted documents)
GeneratedTaskIds == 1..(nextTaskId - 1)
GeneratedUserIds == 1..(nextUserId - 1)

isValidId(id) == id > 0

\* models/user.js: email has lowercase: true (and trim)
ToLower(e) ==
  CASE e = "E1" -> "e1"
    [] e = "E2" -> "e2"
    [] OTHER -> e

StoredTasks == DOMAIN tasks
StoredUsers == DOMAIN users

Range(s) == {s[i] : i \in 1..Len(s)}

\* MongoDB $addToSet on an array field: append unless already an element
AddToSet(list, x) == IF x \in Range(list) THEN list ELSE Append(list, x)

\* MongoDB $pull on an array field: remove every occurrence
Pull(list, x) == SelectSeq(list, LAMBDA y : y # x)

Count(list, x) == Cardinality({i \in 1..Len(list) : list[i] = x})

\* function f without the key k / with the key k set to v
Without(f, k) == [x \in (DOMAIN f) \ {k} |-> f[x]]
With(f, k, v) == [x \in (DOMAIN f) \cup {k} |-> IF x = k THEN v ELSE f[x]]

\* ------------------------------------------------------- request bodies
\* Task bodies: every combination of the optional fields with name and
\* deadline given, and one body for each missing required field.
AssignedUserBodies ==
  {Absent, Some(BadId)} \cup {Some(u) : u \in GeneratedUserIds}

TaskBodies ==
  [name : {Some("n")}, deadline : {Some("d")},
   completed : {Absent, Some(TRUE)},
   assignedUser : AssignedUserBodies,
   assignedUserName : {Absent, Some("x")}]
  \cup
  {[name |-> Absent, deadline |-> Some("d"), completed |-> Absent,
    assignedUser |-> Absent, assignedUserName |-> Absent],
   [name |-> Some("n"), deadline |-> Absent, completed |-> Absent,
    assignedUser |-> Absent, assignedUserName |-> Absent]}

UserNames == {"a", "b"}
Emails == {"e1", "E1", "e2"}

SeqsUpTo(S, n) == UNION {[1..k -> S] : k \in 0..n}

\* pendingTasks of a body: absent, a list of generated task ids (repeats
\* allowed), or a list holding a string that is no ObjectId
PendingBodies ==
  {Absent, Some(<<BadId>>)}
  \cup {Some(l) : l \in SeqsUpTo(GeneratedTaskIds, MaxListLen)}

UserBodies ==
  [name : {Some(n) : n \in UserNames},
   email : {Some(e) : e \in Emails},
   pendingTasks : PendingBodies]
  \cup
  {[name |-> Absent, email |-> Some("e1"), pendingTasks |-> Absent],
   [name |-> Some("a"), email |-> Absent, pendingTasks |-> Absent]}

\* ------------------------------------------------------------- the state
EmptyStore == [x \in {} |-> 0]

\* The response helpers of the routers: status code and envelope message.
ok == [code |-> 200, message |-> "OK"]
created == [code |-> 201, message |-> "Created"]
noContent == [code |-> 204, message |-> ""]
bad(message) == [code |-> 400, message |-> message]
notFound(message) == [code |-> 404, message |-> message]
fail == [code |-> 500, message |-> "Server Error"]

\* The requests whose store statements may interleave with those of another
\* request: one record per request with its parameters, the position it has
\* reached (pc), the local variables of the handler and its response.
Slots == {"r1", "r2"}

NoTask ==
  [name |-> "", deadline |-> "", completed |-> FALSE,
   assignedUser |-> EmptyStr, assignedUserName |-> ""]

NoUser == [name |-> "", email |-> "", pendingTasks |-> <<>>]

Idle ==
  [pc |-> "idle", op |-> "none", id |-> EmptyStr,
   task |-> NoTask, user |-> NoUser,
   before |-> NoTask, beforeUser |-> NoUser, dropIds |-> {},
   assignedUserName |-> Absent, rule |-> 0,
   status |-> 0, responses |-> 0,
   failed |-> FALSE, conflict |-> FALSE, overlapped |-> FALSE]

TaskOps == {"PostTask", "PutTask", "DeleteTask"}
UserOps == {"PostUser", "PutUser", "DeleteUser"}

\* last records the latest request and its response: the handler (op), the
\* id of the path or of the created document, the HTTP status and the message
\* of the response envelope, the email of a user body ("" if none), and two
\* facts about the stores as the request found them: the assignedUser the
\* addressed task had (prevUser), the tasks that named the addressed user
\* (owned), the name the addressed user had (prevName, "" if none) and
\* whether a user body repeats the email and the pendingTasks the addressed
\* user had (sameRest).
Init ==
  /\ tasks = EmptyStore
  /\ users = EmptyStore
  /\ nextTaskId = 1
  /\ nextUserId = 1
  /\ inflight = [r \in Slots |-> Idle]
  /\ last = [op |-> "none", id |-> EmptyStr, status |-> 0, message |-> "",
             email |-> "", prevUser |-> EmptyStr, owned |-> {},
             prevName |-> "", sameRest |-> FALSE]

Recorded(op, id, email, sameRest, status) ==
  /\ UNCHANGED inflight
  /\ last' = [op |-> op, id |-> id, status |-> status.code,
           message |-> status.message,
           email |-> email,
           prevUser |-> IF op \in TaskOps /\ id \in StoredTasks
                          THEN tasks[id].assignedUser ELSE EmptyStr,
           owned |-> IF op \in UserOps
                       THEN {t \in StoredTasks : tasks[t].assignedUser = id}
                       ELSE {},
           prevName |-> IF op \in UserOps /\ id \in StoredUsers
                          THEN users[id].name ELSE "",
           sameRest |-> sameRest]

\* The response to a request without an email in its body
Respond(op, id, status) == Recorded(op, id, "", FALSE, status)

\* The response to a POST /users or PUT /users/:id with this body
RespondUser(op, id, body, status) ==
  Recorded(op, id, Coalesce(body.email, ""),
           /\ id \in StoredUsers
           /\ body.email # Absent
           /\ ToLower(body.email[1]) = users[id].email
           /\ Coalesce(body.pendingTasks, <<>>) = users[id].pendingTasks,
           status)

\* A response that leaves both stores as they are
Reject(op, id, status) ==
  /\ Respond(op, id, status)
  /\ UNCHANGED <<tasks, users, nextTaskId, nextUserId>>

RejectUser(op, id, body, status) ==
  /\ RespondUser(op, id, body, status)
  /\ UNCHANGED <<tasks, users, nextTaskId, nextUserId>>

\* ------------------------------------------------------ store statements
\* The outcome of a sequence of store statements: the user store so far and
\* whether every statement so far succeeded (a statement whose _id filter is
\* no ObjectId is rejected by the driver with a CastError).
Started(us) == [users |-> us, ok |-> TRUE]

\* User.updateOne({_id: id}, {$addToSet: {pendingTasks: tid}})
UserAddToSet(st, id, tid) ==
  IF ~st.ok THEN st
  ELSE IF ~isValidId(id) THEN [st EXCEPT !.ok = FALSE]
  ELSE IF id \notin DOMAIN st.users THEN st
  ELSE [st EXCEPT !.users[id].pendingTasks = AddToSet(@, tid)]

\* User.updateOne({_id: id}, {$pull: {pendingTasks: tid}})
UserPull(st, id, tid) ==
  IF ~st.ok THEN st
  ELSE IF ~isValidId(id) THEN [st EXCEPT !.ok = FALSE]
  ELSE IF id \notin DOMAIN st.users THEN st
  ELSE [st EXCEPT !.users[id].pendingTasks = Pull(@, tid)]

\* syncUserPendingForTask without the removal from the previous assignee
syncWithoutPrevPull(us, tid, task, prev) ==
  LET s0 == Started(us)
      s1 == IF ~task.completed /\ task.assignedUser # EmptyStr
              THEN UserAddToSet(s0, task.assignedUser, tid)
              ELSE s0
      s3 == IF (task.completed \/ task.assignedUser = EmptyStr)
                /\ task.assignedUser # EmptyStr
              THEN UserPull(s1, task.assignedUser, tid)
              ELSE s1
  IN s3

\* syncUserPendingForTask without the removal from the current assignee
syncWithoutCurrentPull(us, tid, task, prev) ==
  LET s0 == Started(us)
      s1 == IF ~task.completed /\ task.assignedUser # EmptyStr
              THEN UserAddToSet(s0, task.assignedUser, tid)
              ELSE s0
      s2 == IF prev # EmptyStr /\ prev # task.assignedUser
              THEN UserPull(s1, prev, tid)
              ELSE s1
  IN s2

\* routes/tasks.js syncUserPendingForTask(task, prevAssignedUserId); tid is
\* task._id and prev is EmptyStr where the code passes null.
syncUserPendingForTask(us, tid, task, prev) ==
  LET s0 == Started(us)
      s1 == IF ~task.completed /\ task.assignedUser # EmptyStr
              THEN UserAddToSet(s0, task.assignedUser, tid)
              ELSE s0
      s2 == IF prev # EmptyStr /\ prev # task.assignedUser
              THEN UserPull(s1, prev, tid)
              ELSE s1
      s3 == IF (task.completed \/ task.assignedUser = EmptyStr)
                /\ task.assignedUser # EmptyStr
              THEN UserPull(s2, task.assignedUser, tid)
              ELSE s2
  IN s3

\* ---------------------------------------------------------- POST /tasks
\* The document Task.create stores (models/task.js defaults included).
NewTask(body) ==
  [name |-> body.name[1],
   deadline |-> body.deadline[1],
   completed |-> Coalesce(body.completed, FALSE),
   assignedUser |-> Coalesce(body.assignedUser, EmptyStr),
   assignedUserName |->
     Coalesce(body.assignedUserName,
              IF Coalesce(body.assignedUser, EmptyStr) # EmptyStr
                THEN "" ELSE Unassigned)]

\* The name POST /tasks gives a task assigned to user id u (lines 103-110).
PostTaskUserName(t) ==
  IF t.assignedUser \in StoredUsers
    THEN users[t.assignedUser].name
    ELSE IF t.assignedUserName # "" THEN t.assignedUserName ELSE Unassigned

PostTask(body) ==
  LET tid == nextTaskId
      t0 == NewTask(body)
  IN
  IF body.name = Absent \/ body.deadline = Absent
       THEN Reject("PostTask", EmptyStr, bad("Task name and deadline are required"))
     ELSE IF t0.assignedUser # EmptyStr /\ ~isValidId(t0.assignedUser)
       THEN \* User.findById throws after Task.create has stored the task
            /\ tid <= MaxTasks
            /\ tasks' = With(tasks, tid, t0)
            /\ nextTaskId' = tid + 1
            /\ UNCHANGED <<users, nextUserId>>
            /\ Respond("PostTask", tid, fail)
     ELSE LET t == IF t0.assignedUser # EmptyStr
                     THEN [t0 EXCEPT !.assignedUserName = PostTaskUserName(t0)]
                     ELSE t0
              s == syncUserPendingForTask(users, tid, t, EmptyStr)
          IN /\ tid <= MaxTasks
             /\ tasks' = With(tasks, tid, t)
             /\ nextTaskId' = tid + 1
             /\ users' = s.users
             /\ UNCHANGED nextUserId
             /\ Respond("PostTask", tid, IF s.ok THEN created ELSE fail)

\* ------------------------------------------------------- PUT /tasks/:id
\* The assignedUserName PUT /tasks/:id stores (lines 167-172).
PutTaskUserName(body) ==
  LET au == Coalesce(body.assignedUser, EmptyStr)
  IN IF au # EmptyStr
       THEN Coalesce(body.assignedUserName,
                     IF au \in StoredUsers THEN users[au].name ELSE Unassigned)
       ELSE Unassigned

PutTask(id, body) ==
  IF ~isValidId(id) THEN Reject("PutTask", id, notFound("Task not found"))
  ELSE IF body.name = Absent \/ body.deadline = Absent
    THEN Reject("PutTask", id, bad("Task name and deadline are required"))
  ELSE IF id \notin StoredTasks
    THEN Reject("PutTask", id, notFound("Task not found"))
  ELSE LET au == Coalesce(body.assignedUser, EmptyStr)
       IN IF au # EmptyStr /\ ~isValidId(au)
            THEN \* User.findById throws before before.save()
                 Reject("PutTask", id, fail)
          ELSE LET prevAssignedUser == tasks[id].assignedUser
                   task == [name |-> body.name[1],
                            deadline |-> body.deadline[1],
                            completed |-> Coalesce(body.completed, FALSE),
                            assignedUser |-> au,
                            assignedUserName |-> PutTaskUserName(body)]
                   s == syncUserPendingForTask(users, id, task, prevAssignedUser)
               IN /\ tasks' = With(tasks, id, task)
                  /\ users' = s.users
                  /\ UNCHANGED <<nextTaskId, nextUserId>>
                  /\ Respond("PutTask", id, IF s.ok THEN ok ELSE fail)

\* DeleteTask that removes the task and leaves the assignee's list alone
DeleteTaskWithoutPull(id) ==
  IF ~isValidId(id) THEN Reject("DeleteTask", id, notFound("Task not found"))
  ELSE IF id \notin StoredTasks
    THEN Reject("DeleteTask", id, notFound("Task not found"))
  ELSE /\ tasks' = Without(tasks, id)
       /\ UNCHANGED <<users, nextTaskId, nextUserId>>
       /\ Respond("DeleteTask", id, noContent)

\* ---------------------------------------------------- DELETE /tasks/:id
DeleteTask(id) ==
  IF ~isValidId(id) THEN Reject("DeleteTask", id, notFound("Task not found"))
  ELSE IF id \notin StoredTasks
    THEN Reject("DeleteTask", id, notFound("Task not found"))
  ELSE LET task == tasks[id]
           s == IF task.assignedUser # EmptyStr
                  THEN UserPull(Started(users), task.assignedUser, id)
                  ELSE Started(users)
       IN IF ~s.ok
            THEN Reject("DeleteTask", id, fail)
            ELSE /\ users' = s.users
                 /\ tasks' = Without(tasks, id)
                 /\ UNCHANGED <<nextTaskId, nextUserId>>
                 /\ Respond("DeleteTask", id, noContent)

\* ------------------------------------------------- variants of statements
\* TaskAssignMany that sets assignedUser and leaves assignedUserName
TaskAssignManyKeepName(ts, list, uid, name) ==
  IF \E i \in 1..Len(list) : ~isValidId(list[i])
    THEN [tasks |-> ts, ok |-> FALSE]
    ELSE [tasks |->
            [t \in DOMAIN ts |->
               IF t \in Range(list) /\ ~ts[t].completed
                 THEN [ts[t] EXCEPT !.assignedUser = uid]
                 ELSE ts[t]],
          ok |-> TRUE]

\* TaskAssignMany that takes only tasks no user is assigned to
TaskAssignManyOnlyFree(ts, list, uid, name) ==
  IF \E i \in 1..Len(list) : ~isValidId(list[i])
    THEN [tasks |-> ts, ok |-> FALSE]
    ELSE [tasks |->
            [t \in DOMAIN ts |->
               IF /\ t \in Range(list) /\ ~ts[t].completed
                  /\ ts[t].assignedUser = EmptyStr
                 THEN [ts[t] EXCEPT !.assignedUser = uid,
                                    !.assignedUserName = name]
                 ELSE ts[t]],
          ok |-> TRUE]

\* TaskAssignMany without the completed: false filter
TaskAssignManyAll(ts, list, uid, name) ==
  IF \E i \in 1..Len(list) : ~isValidId(list[i])
    THEN [tasks |-> ts, ok |-> FALSE]
    ELSE [tasks |->
            [t \in DOMAIN ts |->
               IF t \in Range(list)
                 THEN [ts[t] EXCEPT !.assignedUser = uid,
                                    !.assignedUserName = name]
                 ELSE ts[t]],
          ok |-> TRUE]

\* --------------------------------------------- task store bulk statements
\* Task.updateMany({_id: {$in: list}, completed: false},
\*                 {$set: {assignedUser: uid, assignedUserName: name}})
\* An element of list that is no ObjectId makes the statement throw.
TaskAssignMany(ts, list, uid, name) ==
  IF \E i \in 1..Len(list) : ~isValidId(list[i])
    THEN [tasks |-> ts, ok |-> FALSE]
    ELSE [tasks |->
            [t \in DOMAIN ts |->
               IF t \in Range(list) /\ ~ts[t].completed
                 THEN [ts[t] EXCEPT !.assignedUser = uid,
                                    !.assignedUserName = name]
                 ELSE ts[t]],
          ok |-> TRUE]

\* TaskUnassignMany that clears assignedUser and leaves assignedUserName
TaskUnassignManyKeepName(ts, ids) ==
  [t \in DOMAIN ts |->
     IF t \in ids THEN [ts[t] EXCEPT !.assignedUser = EmptyStr] ELSE ts[t]]

\* Task.updateMany({_id: {$in: ids}},
\*                 {$set: {assignedUser: '', assignedUserName: 'unassigned'}})
TaskUnassignMany(ts, ids) ==
  [t \in DOMAIN ts |->
     IF t \in ids
       THEN [ts[t] EXCEPT !.assignedUser = EmptyStr,
                          !.assignedUserName = Unassigned]
       ELSE ts[t]]

\* PendingAssigned with the completed filter inverted
PendingAssignedCompleted(ts, uid) ==
  {t \in DOMAIN ts : ts[t].assignedUser = uid /\ ts[t].completed}

\* Task.find({assignedUser: uid, completed: false}), as a set of ids
PendingAssigned(ts, uid) ==
  {t \in DOMAIN ts : ts[t].assignedUser = uid /\ ~ts[t].completed}

\* EmailTaken comparing the email as sent, without lower-casing it
EmailTakenCaseSensitive(us, email, except) ==
  \E u \in DOMAIN us : u # except /\ us[u].email = email

\* User.findOne({email: lower-cased email, _id: {$ne: except}}) finds a user
EmailTaken(us, email, except) ==
  \E u \in DOMAIN us : u # except /\ us[u].email = ToLower(email)

\* The document the user store keeps for a request body
NewUser(body) ==
  [name |-> body.name[1],
   email |-> ToLower(body.email[1]),
   pendingTasks |-> Coalesce(body.pendingTasks, <<>>)]

\* ---------------------------------------------------------- POST /users
PostUser(body) ==
  IF body.name = Absent \/ body.email = Absent
    THEN RejectUser("PostUser", EmptyStr, body, bad("Name and email are required"))
  ELSE IF EmailTaken(users, body.email[1], EmptyStr)
    THEN RejectUser("PostUser", EmptyStr, body,
                bad("A user with this email already exists"))
  ELSE LET uid == nextUserId
           user == NewUser(body)
           s == IF Len(user.pendingTasks) > 0
                  THEN TaskAssignMany(tasks, user.pendingTasks, uid, user.name)
                  ELSE [tasks |-> tasks, ok |-> TRUE]
       IN /\ uid <= MaxUsers
          /\ users' = With(users, uid, user)
          /\ nextUserId' = uid + 1
          /\ tasks' = s.tasks
          /\ UNCHANGED nextTaskId
          /\ RespondUser("PostUser", uid, body, IF s.ok THEN created ELSE fail)

\* ------------------------------------------------------- PUT /users/:id
PutUser(id, body) ==
  IF ~isValidId(id) THEN RejectUser("PutUser", id, body, notFound("User not found"))
  ELSE IF body.name = Absent \/ body.email = Absent
    THEN RejectUser("PutUser", id, body, bad("Name and email are required"))
  ELSE IF EmailTaken(users, body.email[1], id)
    THEN RejectUser("PutUser", id, body, bad("A user with this email already exists"))
  ELSE IF id \notin StoredUsers
    THEN RejectUser("PutUser", id, body, notFound("User not found"))
  ELSE LET user == NewUser(body)
           s == TaskAssignMany(tasks, user.pendingTasks, id, user.name)
           dropIds == PendingAssigned(s.tasks, id) \ Range(user.pendingTasks)
       IN /\ users' = With(users, id, user)
          /\ tasks' = IF s.ok THEN TaskUnassignMany(s.tasks, dropIds)
                              ELSE s.tasks
          /\ UNCHANGED <<nextTaskId, nextUserId>>
          /\ RespondUser("PutUser", id, body, IF s.ok THEN ok ELSE fail)

\* DeleteUser that unassigns the tasks before it looks the user up
DeleteUserCleanupFirst(id) ==
  IF ~isValidId(id) THEN Reject("DeleteUser", id, notFound("User not found"))
  ELSE IF id \notin StoredUsers
    THEN /\ tasks' = TaskUnassignMany(tasks, PendingAssigned(tasks, id))
         /\ UNCHANGED <<users, nextTaskId, nextUserId>>
         /\ Respond("DeleteUser", id, notFound("User not found"))
  ELSE /\ tasks' = TaskUnassignMany(tasks, PendingAssigned(tasks, id))
       /\ users' = Without(users, id)
       /\ UNCHANGED <<nextTaskId, nextUserId>>
       /\ Respond("DeleteUser", id, noContent)

\* ---------------------------------------------------- DELETE /users/:id
DeleteUser(id) ==
  IF ~isValidId(id) THEN Reject("DeleteUser", id, notFound("User not found"))
  ELSE IF id \notin StoredUsers
    THEN Reject("DeleteUser", id, notFound("User not found"))
  ELSE /\ tasks' = TaskUnassignMany(tasks, PendingAssigned(tasks, id))
       /\ users' = Without(users, id)
       /\ UNCHANGED <<nextTaskId, nextUserId>>
       /\ Respond("DeleteUser", id, noContent)

\* ------------------------------------- GET /tasks/:id and GET /users/:id
\* The select query parameter: absent, a JSON text, or a text JSON.parse
\* rejects with a SyntaxError.
SelectQueries == {Absent, Some("json"), Some("malformed")}

parseJSONThrows(select) == select # Absent /\ select[1] = "malformed"

GetTask(id, select) ==
  IF ~isValidId(id) THEN Reject("GetTask", id, notFound("Task not found"))
  ELSE IF parseJSONThrows(select)
    THEN Reject("GetTask", id, bad("Invalid JSON in select"))
  ELSE IF id \notin StoredTasks
    THEN Reject("GetTask", id, notFound("Task not found"))
  ELSE Reject("GetTask", id, ok)

GetUser(id, select) ==
  IF ~isValidId(id) THEN Reject("GetUser", id, notFound("User not found"))
  ELSE IF parseJSONThrows(select)
    THEN Reject("GetUser", id, bad("Invalid JSON in select"))
  ELSE IF id \notin StoredUsers
    THEN Reject("GetUser", id, notFound("User not found"))
  ELSE Reject("GetUser", id, ok)

\* ------------------------------------------------------ the specification
PathTaskIds == GeneratedTaskIds \cup {BadId}
PathUserIds == GeneratedUserIds \cup {BadId}

Next ==
  \/ \E body \in TaskBodies : PostTask(body)
  \/ \E id \in PathTaskIds, body \in TaskBodies : PutTask(id, body)
  \/ \E id \in PathTaskIds : DeleteTask(id)
  \/ \E body \in UserBodies : PostUser(body)
  \/ \E id \in PathUserIds, body \in UserBodies : PutUser(id, body)
  \/ \E id \in PathUserIds : DeleteUser(id)
  \/ \E id \in PathTaskIds, select \in SelectQueries : GetTask(id, select)
  \/ \E id \in PathUserIds, select \in SelectQueries : GetUser(id, select)

Spec == Init /\ [][Next]_vars

\* ------------------------------------------------- interleaved requests
\* Every handler is an async function: between two of its awaited store
\* statements the statements of another request can run.  A step below is
\* one awaited store statement together with the synchronous code that
\* follows it up to the next await or to the response.
Running(r) == inflight[r].pc \notin {"idle", "done"}

\* The request in slot r becomes req; the other requests stay as they are.
Step(r, req) ==
  /\ inflight' = [inflight EXCEPT ![r] = req]
  /\ UNCHANGED last

\* A request arrives in slot r; overlapped tells whether another request
\* was between its first and its last statement at that moment.
Arrive(r, op, id) ==
  [Idle EXCEPT !.op = op, !.id = id,
               !.overlapped = \E q \in Slots \ {r} : Running(q)]

\* res.status(code).json(...): the response ends the handler.
Finish(req, status) ==
  [req EXCEPT !.pc = "done", !.status = status.code, !.responses = @ + 1]

\* A catch block that runs the failed statement again
CatchRetry(req) == req

\* catch (e) { ...; return fail(res, e) } for an error of a store statement
Catch(req) == Finish(req, fail)

\* A store update of the synchronization fails: the error reaches catch.
Failed(req) == Catch([req EXCEPT !.failed = TRUE])

\* doc.save() of a loaded document sends the paths whose value differs
\* from the loaded one; the other paths keep what the store holds.
Modified(current, before, doc) ==
  [f \in DOMAIN doc |-> IF doc[f] # before[f] THEN doc[f] ELSE current[f]]

\* The unique index on email rejects a write with E11000
UniqueIndexRejects(us, email, except) ==
  \E u \in DOMAIN us : u # except /\ us[u].email = email

\* Bodies of the interleaved requests: well-formed ones
StepTaskBodies ==
  {b \in TaskBodies : /\ b.name # Absent /\ b.deadline # Absent
                      /\ b.assignedUserName = Absent
                      /\ b.assignedUser # Some(BadId)}

StepUserBodies ==
  {b \in UserBodies : /\ b.name = Some("b") /\ b.email # Absent
                      /\ b.pendingTasks # Some(<<BadId>>)
                      /\ Len(Coalesce(b.pendingTasks, <<>>)) <= 1
                      /\ b.pendingTasks # Some(<<>>)}

\* ---- PUT /tasks/:id, statement by statement
\* Up to Task.findById(id) and the assignments to the loaded document.
BeginPutTask(r, id, body) ==
  /\ inflight[r].pc = "idle"
  /\ UNCHANGED <<tasks, users, nextTaskId, nextUserId>>
  /\ LET req == Arrive(r, "PutTask", id)
         au == Coalesce(body.assignedUser, EmptyStr)
     IN IF ~isValidId(id)
          THEN Step(r, Finish(req, notFound("Task not found")))
        ELSE IF body.name = Absent \/ body.deadline = Absent
          THEN Step(r, Finish(req, bad("Task name and deadline are required")))
        ELSE IF id \notin StoredTasks
          THEN Step(r, Finish(req, notFound("Task not found")))
        ELSE Step(r, [req EXCEPT
               !.before = tasks[id],
               !.assignedUserName = body.assignedUserName,
               !.task = [name |-> body.name[1],
                         deadline |-> body.deadline[1],
                         completed |-> Coalesce(body.completed, FALSE),
                         assignedUser |-> au,
                         assignedUserName |->
                           IF au # EmptyStr THEN tasks[id].assignedUserName
                                            ELSE Unassigned],
               !.pc = IF au # EmptyStr THEN "findAssignee" ELSE "saveTask"])

\* const u = await User.findById(before.assignedUser)
FindAssignee(r) ==
  /\ inflight[r].pc = "findAssignee"
  /\ UNCHANGED <<tasks, users, nextTaskId, nextUserId>>
  /\ LET req == inflight[r]
         au == req.task.assignedUser
     IN IF ~isValidId(au) THEN Step(r, Catch(req))
        ELSE Step(r, [req EXCEPT
               !.task.assignedUserName =
                  Coalesce(req.assignedUserName,
                           IF au \in StoredUsers THEN users[au].name
                                                 ELSE Unassigned),
               !.pc = "saveTask"])

\* The rules of syncUserPendingForTask(task, prevAssignedUser): rule k
\* applies to the request
SyncCond(req, k) ==
  LET task == req.task
      prev == req.before.assignedUser
  IN CASE k = 1 -> ~task.completed /\ task.assignedUser # EmptyStr
       [] k = 2 -> prev # EmptyStr /\ prev # task.assignedUser
       [] OTHER -> /\ task.completed \/ task.assignedUser = EmptyStr
                   /\ task.assignedUser # EmptyStr

\* After rule k: the next rule that applies, or the response ok(res, task)
AfterSync(req, k) ==
  IF \E j \in (k + 1)..3 : SyncCond(req, j)
    THEN [req EXCEPT !.pc = "sync",
                     !.rule = CHOOSE j \in (k + 1)..3 :
                                /\ SyncCond(req, j)
                                /\ \A i \in (k + 1)..(j - 1) : ~SyncCond(req, i)]
    ELSE Finish(req, ok)

\* const task = await before.save()
SaveTask(r) ==
  /\ inflight[r].pc = "saveTask"
  /\ UNCHANGED <<users, nextTaskId, nextUserId>>
  /\ LET req == inflight[r]
     IN IF req.id \notin StoredTasks
          THEN /\ UNCHANGED tasks
               /\ Step(r, Catch(req))
          ELSE /\ tasks' = [tasks EXCEPT ![req.id] =
                              Modified(@, req.before, req.task)]
               /\ Step(r, AfterSync(req, 0))

\* SyncStatement whose rule 2 leaves the previous assignee's list alone
SyncStatementNoPrevPull(us, req) ==
  CASE req.rule = 1 -> UserAddToSet(Started(us), req.task.assignedUser, req.id)
    [] req.rule = 2 -> Started(us)
    [] OTHER -> UserPull(Started(us), req.task.assignedUser, req.id)

\* The store statement of the rule the request has reached
SyncStatement(us, req) ==
  CASE req.rule = 1 -> UserAddToSet(Started(us), req.task.assignedUser, req.id)
    [] req.rule = 2 -> UserPull(Started(us), req.before.assignedUser, req.id)
    [] OTHER -> UserPull(Started(us), req.task.assignedUser, req.id)

\* One awaited User.updateOne of syncUserPendingForTask: it is applied, or
\* the store reports an error and the handler's catch answers.
SyncStep(r) ==
  /\ inflight[r].pc = "sync"
  /\ UNCHANGED <<tasks, nextTaskId, nextUserId>>
  /\ LET req == inflight[r]
         s == SyncStatement(users, req)
     IN \/ /\ s.ok
           /\ users' = s.users
           /\ Step(r, AfterSync(req, req.rule))
        \/ /\ UNCHANGED users
           /\ Step(r, Failed(req))

\* ---- POST /users, statement by statement
\* Up to User.findOne({email})
BeginPostUser(r, body) ==
  /\ inflight[r].pc = "idle"
  /\ UNCHANGED <<tasks, users, nextTaskId, nextUserId>>
  /\ LET req == Arrive(r, "PostUser", EmptyStr)
     IN IF body.name = Absent \/ body.email = Absent
          THEN Step(r, Finish(req, bad("Name and email are required")))
        ELSE IF EmailTaken(users, body.email[1], EmptyStr)
          THEN Step(r, Finish([req EXCEPT !.conflict = TRUE],
                              bad("A user with this email already exists")))
        ELSE Step(r, [req EXCEPT !.user = NewUser(body), !.pc = "create"])

\* const user = await User.create({...}); E11000 is answered 400 (line 82)
CreateUser(r) ==
  /\ inflight[r].pc = "create"
  /\ UNCHANGED <<tasks, nextTaskId>>
  /\ LET req == inflight[r]
         uid == nextUserId
     IN IF UniqueIndexRejects(users, req.user.email, EmptyStr)
          THEN /\ UNCHANGED <<users, nextUserId>>
               /\ Step(r, Finish([req EXCEPT !.conflict = TRUE],
                                 bad("A user with this email already exists")))
          ELSE /\ uid <= MaxUsers
               /\ users' = With(users, uid, req.user)
               /\ nextUserId' = uid + 1
               /\ Step(r, IF Len(req.user.pendingTasks) > 0
                            THEN [req EXCEPT !.id = uid, !.pc = "assign"]
                            ELSE Finish([req EXCEPT !.id = uid], created))

\* await Task.updateMany({_id: {$in: user.pendingTasks}, completed: false},
\*                       {$set: {assignedUser, assignedUserName}})
\* of POST /users and of PUT /users/:id
AssignStep(r) ==
  /\ inflight[r].pc = "assign"
  /\ UNCHANGED <<users, nextTaskId, nextUserId>>
  /\ LET req == inflight[r]
         s == TaskAssignMany(tasks, req.user.pendingTasks, req.id, req.user.name)
     IN \/ /\ s.ok
           /\ tasks' = s.tasks
           /\ Step(r, IF req.op = "PostUser" THEN Finish(req, created)
                                             ELSE [req EXCEPT !.pc = "findDrop"])
        \/ /\ UNCHANGED tasks
           /\ Step(r, Failed(req))

\* ---- PUT /users/:id, statement by statement
\* Up to User.findOne({email, _id: {$ne: id}})
BeginPutUser(r, id, body) ==
  /\ inflight[r].pc = "idle"
  /\ UNCHANGED <<tasks, users, nextTaskId, nextUserId>>
  /\ LET req == Arrive(r, "PutUser", id)
     IN IF ~isValidId(id)
          THEN Step(r, Finish(req, notFound("User not found")))
        ELSE IF body.name = Absent \/ body.email = Absent
          THEN Step(r, Finish(req, bad("Name and email are required")))
        ELSE IF EmailTaken(users, body.email[1], id)
          THEN Step(r, Finish([req EXCEPT !.conflict = TRUE],
                              bad("A user with this email already exists")))
        ELSE Step(r, [req EXCEPT !.user = NewUser(body), !.pc = "findUser"])

\* const before = await User.findById(id)
FindUser(r) ==
  /\ inflight[r].pc = "findUser"
  /\ UNCHANGED <<tasks, users, nextTaskId, nextUserId>>
  /\ LET req == inflight[r]
     IN IF req.id \notin StoredUsers
          THEN Step(r, Finish(req, notFound("User not found")))
          ELSE Step(r, [req EXCEPT !.beforeUser = users[req.id],
                                   !.pc = "saveUser"])

\* const user = await before.save(); the catch of PUT /users/:id has no
\* branch for E11000, so the rejection by the unique index is answered 500
SaveUser(r) ==
  /\ inflight[r].pc = "saveUser"
  /\ UNCHANGED <<tasks, nextTaskId, nextUserId>>
  /\ LET req == inflight[r]
     IN IF req.id \notin StoredUsers
          THEN /\ UNCHANGED users
               /\ Step(r, Catch(req))
        ELSE IF /\ req.user.email # req.beforeUser.email
                /\ UniqueIndexRejects(users, req.user.email, req.id)
          THEN /\ UNCHANGED users
               /\ Step(r, Catch([req EXCEPT !.conflict = TRUE]))
        ELSE /\ users' = [users EXCEPT ![req.id] =
                            Modified(@, req.beforeUser, req.user)]
             /\ Step(r, [req EXCEPT !.pc = "assign"])

\* const toUnassign = await Task.find({assignedUser: id, completed: false})
\* and the filter that keeps the ids the new list does not hold
FindDrop(r) ==
  /\ inflight[r].pc = "findDrop"
  /\ UNCHANGED <<tasks, users, nextTaskId, nextUserId>>
  /\ LET req == inflight[r]
         dropIds == PendingAssigned(tasks, req.id) \ Range(req.user.pendingTasks)
     IN Step(r, IF dropIds = {} THEN Finish(req, ok)
                ELSE [req EXCEPT !.dropIds = dropIds, !.pc = "drop"])

\* await Task.updateMany({_id: {$in: dropIds}}, {$set: {assignedUser: '',
\*                        assignedUserName: 'unassigned'}})
DropStep(r) ==
  /\ inflight[r].pc = "drop"
  /\ UNCHANGED <<users, nextTaskId, nextUserId>>
  /\ LET req == inflight[r]
     IN \/ /\ tasks' = TaskUnassignMany(tasks, req.dropIds)
           /\ Step(r, Finish(req, ok))
        \/ /\ UNCHANGED tasks
           /\ Step(r, Failed(req))

\* ---- the specification of interleaved requests
\* The stores the requests start from: every task pending, assigned to a
\* stored user or to none, and every user's list holding exactly the tasks
\* assigned to the user.
InitEmails == <<"e1", "e2">>

InitTask(assign, t) ==
  [name |-> "n", deadline |-> "d", completed |-> FALSE,
   assignedUser |-> assign[t],
   assignedUserName |-> IF assign[t] = EmptyStr THEN Unassigned ELSE "a"]

InitUser(assign, u) ==
  LET Mine(t) == assign[t] = u
  IN [name |-> "a", email |-> InitEmails[u],
      pendingTasks |-> SelectSeq([t \in 1..MaxTasks |-> t], Mine)]

InitSteps ==
  \E n \in 0..Len(InitEmails) :
    /\ n <= MaxUsers
    /\ \E assign \in [TaskIds -> {EmptyStr} \cup 1..n] :
         /\ tasks = [t \in TaskIds |-> InitTask(assign, t)]
         /\ users = [u \in 1..n |-> InitUser(assign, u)]
    /\ nextTaskId = MaxTasks + 1
    /\ nextUserId = n + 1
    /\ inflight = [r \in Slots |-> Idle]
    /\ last = [op |-> "none", id |-> EmptyStr, status |-> 0, message |-> "",
               email |-> "", prevUser |-> EmptyStr, owned |-> {},
               prevName |-> "", sameRest |-> FALSE]

NextSteps ==
  \E r \in Slots :
    \/ \E id \in GeneratedTaskIds, body \in StepTaskBodies :
         BeginPutTask(r, id, body)
    \/ FindAssignee(r)
    \/ SaveTask(r)
    \/ SyncStep(r)
    \/ \E body \in StepUserBodies : BeginPostUser(r, body)
    \/ CreateUser(r)
    \/ AssignStep(r)
    \/ \E id \in GeneratedUserIds, body \in StepUserBodies :
         BeginPutUser(r, id, body)
    \/ FindUser(r)
    \/ SaveUser(r)
    \/ FindDrop(r)
    \/ DropStep(r)

SpecSteps == InitSteps /\ [][NextSteps]_vars

\* ================================================================ claims
IsPending(t) == t \in StoredTasks /\ ~tasks[t].completed

InPending(t, u) == u \in StoredUsers /\ t \in Range(users[u].pendingTasks)

\* C1: every stored task that is not completed and whose assignedUser is the
\* id of a stored user has its id in that user's pendingTasks.
C1_PendingTaskListed ==
  \A t \in StoredTasks, u \in StoredUsers :
    (~tasks[t].completed /\ tasks[t].assignedUser = u) => InPending(t, u)

\* C2: no stored task that is completed or has an empty assignedUser has its
\* id in the pendingTasks of any stored user.
C2_OnlyPendingListed ==
  \A t \in StoredTasks, u \in StoredUsers :
    (tasks[t].completed \/ tasks[t].assignedUser = EmptyStr)
      => ~InPending(t, u)

Succeeded == last.status \in {200, 201, 204}

\* the task a successful POST /tasks or PUT /tasks/:id has just stored
JustSavedTask(t) ==
  /\ last.op \in {"PostTask", "PutTask"}
  /\ Succeeded
  /\ last.id = t
  /\ t \in StoredTasks

\* C3 (as claimed): after a successful create or replace that leaves task t
\* not completed and assigned to a stored user u, u.pendingTasks holds t
\* exactly once.
C3_ListedExactlyOnce ==
  \A t \in StoredTasks, u \in StoredUsers :
    (JustSavedTask(t) /\ ~tasks[t].completed /\ tasks[t].assignedUser = u)
      => Count(users[u].pendingTasks, t) = 1

\* C4: a task replace that moves task t from stored user u1 to a different
\* stored user u2 and leaves t pending ends with t absent from
\* u1.pendingTasks and present in u2.pendingTasks.
C4_ReassignMovesEntry ==
  \A t \in StoredTasks, u1 \in StoredUsers, u2 \in StoredUsers :
    (/\ last.op = "PutTask" /\ last.id = t
     /\ last.prevUser = u1 /\ tasks[t].assignedUser = u2 /\ u1 # u2
     /\ ~tasks[t].completed)
      => ~InPending(t, u1) /\ InPending(t, u2)

C4_Witness ==
  \E t \in StoredTasks, u1 \in StoredUsers, u2 \in StoredUsers :
    /\ last.op = "PutTask" /\ last.id = t /\ last.status = 200
    /\ last.prevUser = u1 /\ tasks[t].assignedUser = u2 /\ u1 # u2
    /\ ~tasks[t].completed

\* C5: a successful task replace that stores task t as completed leaves t
\* stored and in the pendingTasks of neither the user it was assigned to
\* before nor the user it is assigned to now.
C5_CompletedLeavesLists ==
  \A t \in TaskIds :
    (last.op = "PutTask" /\ last.id = t /\ last.status = 200
     /\ t \in StoredTasks /\ tasks[t].completed)
      => /\ ~InPending(t, last.prevUser)
         /\ ~InPending(t, tasks[t].assignedUser)

C5_Witness ==
  \E t \in StoredTasks :
    /\ last.op = "PutTask" /\ last.id = t /\ last.status = 200
    /\ tasks[t].completed
    /\ last.prevUser \in StoredUsers
    /\ tasks[t].assignedUser \in StoredUsers
    /\ tasks[t].assignedUser # last.prevUser

ClearedTask(t) ==
  /\ t \in StoredTasks
  /\ tasks[t].assignedUser = EmptyStr
  /\ tasks[t].assignedUserName = Unassigned

JustEmptiedUser(u) ==
  /\ last.op = "PutUser" /\ last.id = u /\ last.status = 200
  /\ u \in StoredUsers /\ users[u].pendingTasks = <<>>

\* C6 (as claimed): after a user replace that sets u.pendingTasks to the
\* empty list, every task that named u before the request is unassigned.
C6_EveryOwnedTaskCleared ==
  \A u \in UserIds :
    JustEmptiedUser(u) => \A t \in last.owned : ClearedTask(t)

\* C6 (amended): after a user replace that sets u.pendingTasks to the empty
\* list, every task that named u before the request and is not completed is
\* unassigned (PUT /users/:id never changes completed).
C6_PendingOwnedTasksCleared ==
  \A u \in UserIds :
    JustEmptiedUser(u)
      => \A t \in last.owned : IsPending(t) => ClearedTask(t)

C6_Witness ==
  \E u \in UserIds :
    JustEmptiedUser(u) /\ \E t \in last.owned : IsPending(t)

DeletedUserStep(u) ==
  /\ last'.op = "DeleteUser" /\ last'.id = u /\ last'.status = 204

ClearedTaskAfter(t) ==
  /\ t \in DOMAIN tasks'
  /\ tasks'[t].assignedUser = EmptyStr
  /\ tasks'[t].assignedUserName = Unassigned

\* C7 (as claimed): a successful delete of user u leaves every task that
\* named u stored and unassigned, the set of stored tasks unchanged, and u
\* not stored.
C7_DeleteClearsEveryTask ==
  [][\A u \in UserIds :
       (DeletedUserStep(u) /\ u \in StoredUsers)
         => /\ \A t \in StoredTasks :
                 tasks[t].assignedUser = u => ClearedTaskAfter(t)
            /\ DOMAIN tasks' = DOMAIN tasks
            /\ u \notin DOMAIN users']_vars

\* C7 (amended): a successful delete of user u leaves every task that named
\* u and is not completed stored and unassigned, the set of stored tasks
\* unchanged, and u not stored.
C7_DeleteClearsPendingTasks ==
  [][\A u \in UserIds :
       (DeletedUserStep(u) /\ u \in StoredUsers)
         => /\ \A t \in StoredTasks :
                 (tasks[t].assignedUser = u /\ ~tasks[t].completed)
                   => ClearedTaskAfter(t)
            /\ DOMAIN tasks' = DOMAIN tasks
            /\ u \notin DOMAIN users']_vars

C7_Witness ==
  /\ last.op = "DeleteUser" /\ last.status = 204
  /\ last.id \notin StoredUsers
  /\ \E t \in last.owned : IsPending(t) /\ ClearedTask(t)

EmailConflictMessage == "A user with this email already exists"

\* some other stored user than except has this email, case ignored
EmailInUse(email, except) ==
  \E u \in StoredUsers : u # except /\ ToLower(users[u].email) = ToLower(email)

UniqueEmails ==
  \A u1 \in StoredUsers, u2 \in StoredUsers :
    ToLower(users[u1].email) = ToLower(users[u2].email) => u1 = u2

\* C8: no two stored users have the same lower-cased email; a user create
\* with the email of a stored user and a replace of a stored user with the
\* email of another stored user are answered 400 and change neither store; a
\* replace of a stored user that keeps its own email is not rejected for its
\* email (it is answered 400 only for a missing name) and leaves the email.
C8_UniqueEmail ==
  /\ []UniqueEmails
  /\ [][(last'.op = "PostUser" /\ last'.email # ""
         /\ EmailInUse(last'.email, EmptyStr))
          => last'.status = 400 /\ users' = users /\ tasks' = tasks]_vars
  /\ [][(last'.op = "PutUser" /\ last'.id \in StoredUsers
         /\ last'.email # "" /\ EmailInUse(last'.email, last'.id))
          => last'.status = 400 /\ users' = users /\ tasks' = tasks]_vars
  /\ [][(last'.op = "PutUser" /\ last'.id \in StoredUsers
         /\ ToLower(last'.email) = users[last'.id].email)
          => /\ last'.message # EmailConflictMessage
             /\ (last'.status = 400
                   => last'.message = "Name and email are required")
             /\ users'[last'.id].email = users[last'.id].email]_vars

C8_Witness ==
  /\ last.op = "PutUser" /\ last.status = 400
  /\ last.message = EmailConflictMessage
  /\ last.id \in StoredUsers
  /\ Cardinality(StoredUsers) = 2

DeletedTaskStep(t) ==
  /\ last'.op = "DeleteTask" /\ last'.id = t /\ last'.status = 204

\* C9: a successful delete of task t leaves t not stored, t's id absent from
\* the pendingTasks of the user t.assignedUser named, and the set of stored
\* users unchanged.
C9_DeleteTaskCleansUp ==
  [][\A t \in TaskIds :
       (DeletedTaskStep(t) /\ t \in StoredTasks)
         => /\ t \notin DOMAIN tasks'
            /\ DOMAIN users' = DOMAIN users
            /\ \A u \in DOMAIN users' :
                 tasks[t].assignedUser = u
                   => t \notin Range(users'[u].pendingTasks)]_vars

C9_Witness ==
  /\ last.op = "DeleteTask" /\ last.status = 204
  /\ last.id \notin StoredTasks
  /\ last.prevUser \in StoredUsers

\* C10 (as claimed): after a successful task create or replace whose
\* assignedUser is the id of a stored user u, the stored assignedUserName is
\* u.name.
C10_NameOfAssignee ==
  \A t \in StoredTasks :
    (JustSavedTask(t) /\ tasks[t].assignedUser \in StoredUsers)
      => tasks[t].assignedUserName = users[tasks[t].assignedUser].name

\* C11 (as claimed): a task create whose body carries no assignedUser stores
\* the task with assignedUser = "" and assignedUserName = "unassigned" and
\* leaves every user record unchanged.
C11_CreateUnassigned ==
  [][(/\ last'.op = "PostTask" /\ last'.status = 201
      /\ tasks'[last'.id].assignedUser = EmptyStr)
       => /\ tasks'[last'.id].assignedUserName = Unassigned
          /\ users' = users]_vars

PathOps ==
  {"GetTask", "PutTask", "DeleteTask", "GetUser", "PutUser", "DeleteUser"}

JustReplacedUser(u) ==
  /\ last.op = "PutUser" /\ last.id = u /\ last.status = 200
  /\ u \in StoredUsers

\* C13: after a successful replace of user u with list L, every stored task
\* that is not completed and in L has assignedUser = u and assignedUserName =
\* u's new name, and every task that is not completed, named u before and is
\* not in L is unassigned; no task in L has been unassigned by the request.
C13_ReplaceSyncsTasks ==
  /\ [](\A u \in UserIds : JustReplacedUser(u) =>
          \A t \in StoredTasks :
            /\ (~tasks[t].completed /\ t \in Range(users[u].pendingTasks))
                 => /\ tasks[t].assignedUser = u
                    /\ tasks[t].assignedUserName = users[u].name
            /\ (/\ ~tasks[t].completed /\ t \in last.owned
                /\ t \notin Range(users[u].pendingTasks))
                 => ClearedTask(t))
  /\ [][(last'.op = "PutUser" /\ last'.status = 200)
         => \A t \in StoredTasks :
              (/\ t \in Range(users'[last'.id].pendingTasks)
               /\ tasks[t].assignedUser # EmptyStr)
                => tasks'[t].assignedUser # EmptyStr]_vars

\* a task u owned before the replace is in the new list and still u's
C13_Witness ==
  \E u \in UserIds : \E t \in StoredTasks :
    /\ JustReplacedUser(u)
    /\ t \in last.owned /\ ~tasks[t].completed
    /\ t \in Range(users[u].pendingTasks)
    /\ tasks[t].assignedUser = u
    /\ last.prevName # users[u].name

\* C14: a replace of stored user u2 that passes validation and whose list
\* holds pending task t, while t is assigned to another user u1 and in
\* u1.pendingTasks, is answered 200 and leaves t with assignedUser = u2 and
\* assignedUserName = u2's name.
C14_LaterReplaceWins ==
  [][\A t \in StoredTasks, u1 \in StoredUsers, u2 \in StoredUsers :
       (/\ last'.op = "PutUser" /\ last'.id = u2 /\ u1 # u2
        /\ last'.status \notin {400, 404}
        /\ ~tasks[t].completed
        /\ tasks[t].assignedUser = u1 /\ InPending(t, u1)
        /\ t \in Range(users'[u2].pendingTasks))
         => /\ last'.status = 200
            /\ tasks'[t].assignedUser = u2
            /\ tasks'[t].assignedUserName = users'[u2].name]_vars

\* u2 has just taken task t, which is still in the list of u1
C14_Witness ==
  \E t \in StoredTasks, u1 \in StoredUsers, u2 \in StoredUsers :
    /\ JustReplacedUser(u2) /\ u1 # u2
    /\ ~tasks[t].completed
    /\ tasks[t].assignedUser = u2
    /\ tasks[t].assignedUserName = users[u2].name
    /\ InPending(t, u2) /\ InPending(t, u1)
    /\ t \notin last.owned

\* a replace of user u answered 200 that changed the name and repeated the
\* email and the pendingTasks u had
RenamedOnly(u) ==
  /\ JustReplacedUser(u)
  /\ last.sameRest
  /\ last.prevName # users[u].name

RenameOnlyStep(u) ==
  /\ last'.op = "PutUser" /\ last'.id = u /\ last'.status = 200
  /\ u \in StoredUsers
  /\ users'[u].email = users[u].email
  /\ users'[u].pendingTasks = users[u].pendingTasks
  /\ users'[u].name # users[u].name

\* C18 (as claimed): a user replace that changes only the name leaves the
\* assignedUserName of every stored task unchanged.
C18_RenameKeepsTaskNames ==
  [][\A u \in UserIds : RenameOnlyStep(u) =>
       \A t \in StoredTasks :
         tasks'[t].assignedUserName = tasks[t].assignedUserName]_vars

\* C18 (amended): a user replace that changes only the name leaves the
\* assignedUserName of every stored task unchanged that is completed, or
\* that is neither in u.pendingTasks nor assigned to u; a task that is not
\* completed and in u.pendingTasks gets the new name.
C18_RenameKeepsOtherTaskNames ==
  [][\A u \in UserIds : RenameOnlyStep(u) =>
       \A t \in StoredTasks :
         /\ (\/ tasks[t].completed
             \/ (/\ t \notin Range(users[u].pendingTasks)
                 /\ tasks[t].assignedUser # u))
              => tasks'[t].assignedUserName = tasks[t].assignedUserName
         /\ (~tasks[t].completed /\ t \in Range(users[u].pendingTasks))
              => tasks'[t].assignedUserName = users'[u].name]_vars

\* after a rename a completed task of u still carries the old name
C18_Witness ==
  \E u \in UserIds : \E t \in StoredTasks :
    /\ RenamedOnly(u)
    /\ tasks[t].completed /\ tasks[t].assignedUser = u
    /\ tasks[t].assignedUserName = last.prevName

\* C19 (as claimed): a task id is in the pendingTasks of at most one stored
\* user, and that user is the one the task's assignedUser names.
C19_ExclusiveOwnership ==
  \A t \in StoredTasks, u \in StoredUsers :
    InPending(t, u) => tasks[t].assignedUser = u

\* C20 (as claimed): every stored task with a non-empty assignedUser names a
\* stored user.
C20_AssigneeStored ==
  \A t \in StoredTasks :
    tasks[t].assignedUser # EmptyStr => tasks[t].assignedUser \in StoredUsers

\* ------------------------------------------ claims on interleaved requests
\* Task t is in the list of a user it is not assigned to
Split(t) ==
  \E u \in StoredUsers :
    t \in Range(users[u].pendingTasks) /\ tasks[t].assignedUser # u

\* Both requests were replaces of task t that changed its assignedUser, and
\* both are finished and answered 200
BothReplaced(t) ==
  \A r \in Slots :
    /\ inflight[r].op = "PutTask" /\ inflight[r].id = t
    /\ inflight[r].pc = "done" /\ inflight[r].status = 200
    /\ inflight[r].task.assignedUser # inflight[r].before.assignedUser

\* C15: the disagreement between a user's list and a task's assignedUser
\* after two replaces of the same task comes from the interleaving of their
\* store statements: two replaces of a task that each change its
\* assignedUser and do not overlap in time, started from a consistent state,
\* leave the task in no list but that of the user it is assigned to.  (The
\* interleaved run that ends with the disagreement is C15_Witness.)
C15_SerialReplacesAgree ==
  \A t \in StoredTasks :
    (BothReplaced(t) /\ \A r \in Slots : ~inflight[r].overlapped)
      => ~Split(t)

\* Two overlapping replaces of one task are finished, and the task is in the
\* list of one user while its assignedUser names another stored user.
C15_Witness ==
  \E t \in StoredTasks :
    /\ BothReplaced(t)
    /\ \E r \in Slots : inflight[r].overlapped
    /\ tasks[t].assignedUser \in StoredUsers
    /\ Split(t)

\* C16: a request one of whose synchronization statements failed is finished
\* and answered 500, with one response; the failing statement changes neither
\* store (what the request saved before stays saved), and the request takes
\* no step after it (the statement is not run again).
C16_SyncFailureIsTerminal ==
  /\ [](\A r \in Slots :
          inflight[r].failed => /\ inflight[r].pc = "done"
                                /\ inflight[r].status = 500
                                /\ inflight[r].responses = 1)
  /\ [][\A r \in Slots :
          /\ (~inflight[r].failed /\ inflight'[r].failed)
               => tasks' = tasks /\ users' = users
          /\ inflight[r].failed => inflight'[r] = inflight[r]]_vars

\* A single replace of a task saved its new pending assignment, its list
\* update failed and it was answered 500: the task is assigned to a stored
\* user whose list does not hold it.
C16_Witness ==
  \E r \in Slots :
    /\ \A q \in Slots \ {r} : inflight[q].pc = "idle"
    /\ inflight[r].op = "PutTask" /\ inflight[r].failed
    /\ inflight[r].pc = "done" /\ inflight[r].status = 500
    /\ inflight[r].id \in StoredTasks
    /\ LET t == inflight[r].id
       IN /\ tasks[t].assignedUser = inflight[r].task.assignedUser
          /\ tasks[t].assignedUser # inflight[r].before.assignedUser
          /\ ~tasks[t].completed
          /\ tasks[t].assignedUser \in StoredUsers
          /\ t \notin Range(users[tasks[t].assignedUser].pendingTasks)

\* C17: under every interleaving of user creates and user replaces no two
\* stored users have the same lower-cased email, and every finished request
\* that was rejected for an email conflict was answered 400.
C17_ConflictAnswered400 ==
  /\ UniqueEmails
  /\ \A r \in Slots :
       (inflight[r].conflict /\ inflight[r].pc = "done")
         => inflight[r].status = 400

\* The first half of C17 alone: the emails stay unique
C17_EmailsStayUnique == UniqueEmails

\* ------------------------------------------------- implicit invariants
\* C21: every id in the pendingTasks of a stored user is the id of a stored
\* task.
C21_PendingIdsStored ==
  \A u \in StoredUsers :
    \A i \in 1..Len(users[u].pendingTasks) :
      users[u].pendingTasks[i] \in StoredTasks

\* C22: every stored task whose assignedUser is empty has the
\* assignedUserName "unassigned".
C22_UnassignedName ==
  \A t \in StoredTasks :
    tasks[t].assignedUser = EmptyStr
      => tasks[t].assignedUserName = Unassigned

====
